---- MODULE Spec2Model ----
(***************************************************************************)
(* A model of the run scheduling and dependency-resolution engine of the   *)
(* pipeline proof of concept: the resolver (pipeline-engine.ts), the file  *)
(* backed run store (run-store.ts), the step executor (step-runner.ts) and *)
(* the orchestrator (runner.ts).                                           *)
(*                                                                         *)
(* Every file of the store is a record [kind, bag]: "absent" (no file),    *)
(* "obj" (a JSON object, its keys and values in bag), "prim" (a JSON       *)
(* string or number, truthy) or "null" (the JSON null).  A bag is a total  *)
(* function over Keys whose value Undef says the key is not in the object. *)
(***************************************************************************)
EXTENDS Naturals, Integers, Sequences, FiniteSets, TLC

\* ------------------------------------------------------------------ bounds
MaxRuns == 1
MaxFailures == 2
MaxAttempts == 2

\* ------------------------------------------------------------- data model
None == "<none>"
Undef == "<undefined>"
Keys == {"text", "k"}
Values == {"hello", "HELLO", ""}
EmptyBag == [key \in Keys |-> Undef]
TextBag(v) == [key \in Keys |-> IF key = "text" THEN v ELSE Undef]
AbsentFile == [kind |-> "absent", bag |-> EmptyBag]
ObjFile(b) == [kind |-> "obj", bag |-> b]
PrimFile == [kind |-> "prim", bag |-> EmptyBag]
NullFile == [kind |-> "null", bag |-> EmptyBag]

PipelineBinding(key) ==
  [source |-> "pipeline", key |-> key, stepId |-> None, output |-> None]
StepBinding(stepId, output, key) ==
  [source |-> "step", key |-> key, stepId |-> stepId, output |-> output]
Input(name, binding) == [name |-> name, binding |-> binding]
StepConfig(stepId, alias, inputs) ==
  [stepId |-> stepId, version |-> "v1", alias |-> alias, inputs |-> inputs]

\* pipelines/sample.json, as initProject writes it
SamplePipeline ==
  [id |-> "sample",
   steps |-> << StepConfig("echo", "echo",
                  << Input("text", PipelineBinding("text")) >>),
                StepConfig("uppercase", "uppercase",
                  << Input("text", StepBinding("echo", "text", "text")) >>) >>]
\* a pipeline definition with no steps
EmptyPipeline == [id |-> "empty", steps |-> << >>]
\* two steps that share the execution name "x"
DupPipeline ==
  [id |-> "dup",
   steps |-> << StepConfig("custom", "x",
                  << Input("text", PipelineBinding("text")) >>),
                StepConfig("custom", "x", << >>) >>]
\* two independent steps and a third that joins their outputs
FanPipeline ==
  [id |-> "fan",
   steps |-> << StepConfig("custom", "z", << >>),
                StepConfig("custom", "a",
                  << Input("text", PipelineBinding("text")) >>),
                StepConfig("uppercase", "b",
                  << Input("k", StepBinding("z", "text", "k")),
                     Input("text", StepBinding("a", "text", "text")) >>) >>]
\* a step whose implementation has no manifest under steps/
BrokenPipeline ==
  [id |-> "broken", steps |-> << StepConfig("ghost", None, << >>) >>]

\* two steps bound to each other's output, a step bound to one of them, and
\* a step bound to nothing
CyclePipeline ==
  [id |-> "cycle",
   steps |-> << StepConfig("echo", "z", << >>),
                StepConfig("custom", "a",
                  << Input("text", StepBinding("b", "text", "text")) >>),
                StepConfig("custom", "b",
                  << Input("text", StepBinding("a", "text", "text")) >>),
                StepConfig("custom", "x",
                  << Input("text", StepBinding("a", "text", "text")) >>) >>]
\* a step whose execution name is "pipeline"
ShadowPipeline ==
  [id |-> "shadow",
   steps |-> << StepConfig("custom", "pipeline",
                  << Input("k", PipelineBinding("text")) >>) >>]

\* a pipeline whose second step binds its input k to the step echo with
\* key "text" and no `output` field
KeyedPipeline ==
  [id |-> "keyed",
   steps |-> << StepConfig("echo", None,
                  << Input("text", PipelineBinding("text")) >>),
                StepConfig("uppercase", None,
                  << Input("k", StepBinding("echo", None, "text")) >>) >>]

Pipelines ==
  {SamplePipeline, EmptyPipeline, DupPipeline, FanPipeline, BrokenPipeline,
   CyclePipeline, ShadowPipeline, KeyedPipeline}
PipelineIds == {p.id : p \in Pipelines}
Manifests == {"echo", "uppercase", "custom"}
InputBags == {TextBag("hello"), EmptyBag}

\* PipelineLoader.load
load(pipelineId) == CHOOSE p \in Pipelines : p.id = pipelineId

getStepExecutionName(step) ==
  IF step.alias = None THEN step.stepId ELSE step.alias

ExecNames ==
  UNION {{getStepExecutionName(p.steps[i]) : i \in 1..Len(p.steps)} : p \in Pipelines}
InputFileNames == ExecNames \cup {"pipeline"}

\* the index of the first step with that execution name, 0 when there is none
findStepByExecutionName(pipeline, executionName) ==
  LET hits == {i \in 1..Len(pipeline.steps) :
                 getStepExecutionName(pipeline.steps[i]) = executionName}
  IN IF hits = {} THEN 0 ELSE CHOOSE i \in hits : \A j \in hits : i <= j

\* Map.get on a map of execution names to output files
Get(map, name) == IF name \in DOMAIN map THEN map[name] ELSE AbsentFile

\* `key in bag` and `bag[key]`
Has(bag, key) == key \in DOMAIN bag /\ bag[key] # Undef
Lookup(bag, key) == IF key \in DOMAIN bag THEN bag[key] ELSE Undef

\* ---------------------------------------------------------------- resolver
\* The loop of dependenciesSatisfied over Object.entries(step.inputs), from
\* entry i on: "true", "false", or "throw" when the `in` operator is applied
\* to an output file that holds a primitive (a TypeError).
\* a loop that finds every binding satisfied
bindingsAlwaysSatisfied(inputs, i, snapshot) == "true"

RECURSIVE bindingsSatisfied(_, _, _)
bindingsSatisfied(inputs, i, snapshot) ==
  IF i > Len(inputs) THEN "true"
  ELSE LET inputKey == inputs[i].name
           binding == inputs[i].binding
       IN IF binding.source = "pipeline"
          THEN IF ~Has(snapshot.pipelineInputs, binding.key)
               THEN "false"
               ELSE bindingsSatisfied(inputs, i + 1, snapshot)
          ELSE IF binding.source = "step"
          THEN LET dependencyName == IF binding.stepId = None THEN "" ELSE binding.stepId
                   dependencyOutputKey ==
                     IF binding.output = None THEN inputKey ELSE binding.output
                   outputs == Get(snapshot.availableOutputs, dependencyName)
               IN IF outputs.kind \in {"absent", "null"} THEN "false"
                  ELSE IF outputs.kind = "prim" THEN "throw"
                  ELSE IF ~Has(outputs.bag, dependencyOutputKey) THEN "false"
                  ELSE bindingsSatisfied(inputs, i + 1, snapshot)
          ELSE bindingsSatisfied(inputs, i + 1, snapshot)

\* dependenciesSatisfied without its look at snapshot.enqueuedSteps
dependenciesSatisfiedIgnoringQueue(step, snapshot) ==
  IF getStepExecutionName(step) \in snapshot.completedSteps THEN "false"
  ELSE bindingsSatisfied(step.inputs, 1, snapshot)

dependenciesSatisfied(step, snapshot) ==
  LET execName == getStepExecutionName(step)
  IN IF execName \in snapshot.completedSteps THEN "false"
     ELSE IF execName \in snapshot.enqueuedSteps THEN "false"
     ELSE bindingsSatisfied(step.inputs, 1, snapshot)

\* The loop of computeRunnableSteps from step i on, `runnable` being the
\* names pushed so far: [threw, names].
RECURSIVE runnableFrom(_, _, _, _)
runnableFrom(pipeline, i, snapshot, runnable) ==
  IF i > Len(pipeline.steps) THEN [threw |-> FALSE, names |-> runnable]
  ELSE LET step == pipeline.steps[i]
           sat == dependenciesSatisfied(step, snapshot)
       IN IF sat = "throw" THEN [threw |-> TRUE, names |-> << >>]
          ELSE IF sat = "true"
          THEN runnableFrom(pipeline, i + 1, snapshot,
                            Append(runnable, getStepExecutionName(step)))
          ELSE runnableFrom(pipeline, i + 1, snapshot, runnable)

\* computeRunnableSteps without the bindings: every step that is neither
\* completed nor enqueued
computeRunnableStepsRegardless(pipeline, snapshot) ==
  [threw |-> FALSE,
   names |-> SelectSeq([i \in 1..Len(pipeline.steps) |->
                          getStepExecutionName(pipeline.steps[i])],
                       LAMBDA name : /\ name \notin snapshot.completedSteps
                                     /\ name \notin snapshot.enqueuedSteps)]

computeRunnableSteps(pipeline, snapshot) ==
  runnableFrom(pipeline, 1, snapshot, << >>)

\* ----------------------------------------------------------- step executor
\* String.prototype.toUpperCase on the values of the model
ToUpperCase(v) == IF v = "hello" THEN "HELLO" ELSE v
\* `inputs.text ?? ''`
TextOrEmpty(inputs) == IF inputs["text"] = Undef THEN "" ELSE inputs["text"]

Result(kind, bag, logs) == [kind |-> kind, bag |-> bag, logs |-> logs]
NoResult == Result("none", EmptyBag, << >>)
\* What a step module can return: an object with an `outputs` object, one
\* without `outputs`, one whose `outputs` is a primitive or null; or it throws.
CustomResults ==
  { Result("throw", EmptyBag, << >>),
    Result("obj", TextBag("hello"), << >>),
    Result("obj", EmptyBag, << >>),
    Result("nooutputs", EmptyBag, << >>),
    Result("prim", EmptyBag, << >>),
    Result("null", EmptyBag, << >>) }

\* StepRunner.executeStep: the results the step module of that manifest can
\* give on these inputs (steps/echo and steps/uppercase are the repository's).
executeStep(manifestId, inputs) ==
  IF manifestId = "echo"
  THEN { Result("obj", TextBag(TextOrEmpty(inputs)), << "Echoing input" >>) }
  ELSE IF manifestId = "uppercase"
  THEN { Result("obj", TextBag(ToUpperCase(TextOrEmpty(inputs))),
                << "Converted to uppercase" >>) }
  ELSE CustomResults

\* ------------------------------------------------------- input binding
\* The loop of materializeInputs from entry i on: [threw, inputs].
\* a materialization that reads the dependency's bag under binding.key
RECURSIVE materializeFromByKey(_, _, _, _, _)
materializeFromByKey(bindings, i, pipelineInputs, outputs, inputs) ==
  IF i > Len(bindings) THEN [threw |-> FALSE, inputs |-> inputs]
  ELSE LET key == bindings[i].name
           binding == bindings[i].binding
       IN IF binding.source = "pipeline"
          THEN materializeFromByKey(bindings, i + 1, pipelineInputs, outputs,
                 [inputs EXCEPT ![key] = Lookup(pipelineInputs, binding.key)])
          ELSE LET stepOutputs == Get(outputs, binding.stepId)
               IN IF stepOutputs.kind \in {"absent", "null"}
                  THEN [threw |-> TRUE, inputs |-> inputs]
                  ELSE materializeFromByKey(bindings, i + 1, pipelineInputs, outputs,
                         [inputs EXCEPT ![key] = Lookup(stepOutputs.bag, binding.key)])

RECURSIVE materializeFrom(_, _, _, _, _)
materializeFrom(bindings, i, pipelineInputs, outputs, inputs) ==
  IF i > Len(bindings) THEN [threw |-> FALSE, inputs |-> inputs]
  ELSE LET key == bindings[i].name
           binding == bindings[i].binding
       IN IF binding.source = "pipeline"
          THEN materializeFrom(bindings, i + 1, pipelineInputs, outputs,
                 [inputs EXCEPT ![key] = Lookup(pipelineInputs, binding.key)])
          ELSE IF binding.source = "step"
          THEN LET stepOutputs ==
                     Get(outputs, IF binding.stepId = None THEN "" ELSE binding.stepId)
                   outputKey == IF binding.output = None THEN key ELSE binding.output
               IN IF stepOutputs.kind \in {"absent", "null"}
                  THEN [threw |-> TRUE, inputs |-> inputs]
                  ELSE materializeFrom(bindings, i + 1, pipelineInputs, outputs,
                         [inputs EXCEPT ![key] = Lookup(stepOutputs.bag, outputKey)])
          ELSE materializeFrom(bindings, i + 1, pipelineInputs, outputs, inputs)

materializeInputs(bindings, pipelineInputs, outputs) ==
  materializeFrom(bindings, 1, pipelineInputs, outputs, EmptyBag)

\* ------------------------------------------------------------------- state
RunIds == 1..(MaxRuns + 1)
Workers == {"w1", "w2"}

VARIABLES
  queue,         \* data/queue.json: the sequence of queue items
  meta,          \* runs/<pipeline>/<run>/metadata.json of each run
  inputsFiles,   \* runs/.../inputs/<name>.json, <name> "pipeline" or a step
  outputsFiles,  \* runs/.../outputs/<step>.json
  logs,          \* runs/.../logs/<step>.ndjson: the entries appended
  wk,            \* each ticking process: its place in tick and its locals
  failures,      \* how many times the catch branch of executeQueueItem ran
  deployment,    \* the pipelines under pipelines/ and how many runs are made
  probe          \* a call of computeRunnableSteps: its arguments and result

vars ==
  << queue, meta, inputsFiles, outputsFiles, logs, wk, failures, deployment,
     probe >>

\* The deployments explored: the pipelines createRun is called for, how many
\* runs are created, and after how many caught failures the ticking stops.
Deployment(pipelineIds, runs, caught) ==
  [pipelines |-> pipelineIds, runs |-> runs, failures |-> caught]
Deployments ==
  { Deployment({"fan"}, MaxRuns, MaxFailures),
    Deployment(PipelineIds \ {"fan", "cycle", "shadow", "keyed"},
               MaxRuns + 1, MaxFailures - 1) }
\* a deployment of the two pipelines with unusual definitions
OddDeployment == Deployment({"cycle", "shadow"}, MaxRuns + 1, MaxFailures - 1)
\* a deployment of the pipeline with a step binding without `output`
KeyedDeployment == Deployment({"keyed"}, MaxRuns, MaxFailures)

QueueItem(pipelineId, runId, stepId) ==
  [pipelineId |-> pipelineId, runId |-> runId, stepId |-> stepId]
NoItem == QueueItem(None, 0, None)
NoMeta == [exists |-> FALSE, pipelineId |-> None, status |-> "none"]
LogEntry(level, message, error) ==
  [level |-> level, message |-> message, error |-> error]

ErrStep == "step threw"
ErrWrite == "TypeError: the data argument must be a string"
ErrIn == "TypeError: cannot use 'in' operator"

IdleWorker ==
  [pc |-> "idle", item |-> NoItem, pipelineInputs |-> EmptyBag,
   enqueuedSteps |-> {}, completedOutputs |-> [n \in ExecNames |-> AbsentFile],
   inputs |-> EmptyBag, result |-> NoResult, error |-> None,
   \* history: the item's log stream and output file as the tick found them
   logAtPop |-> << >>, outputAtPop |-> AbsentFile,
   \* the copy of queue.json a readQueue of the worker returned
   queueRead |-> << >>,
   \* the items the loop of enqueueRunnableSteps has still to append
   pending |-> << >>]

\* The resolver's argument and result, when it is applied on its own
NoRunnable == [threw |-> FALSE, names |-> << >>]
NoProbe ==
  [pipeline |-> EmptyPipeline,
   snapshot |-> [completedSteps |-> {}, enqueuedSteps |-> {},
                 availableOutputs |-> [n \in {} |-> AbsentFile],
                 pipelineInputs |-> EmptyBag],
   called |-> FALSE, result |-> NoRunnable]
\* Record<string, unknown> bags over Keys
ProbeBags == [Keys -> {"hello", Undef}]
\* RunStateSnapshot values for a pipeline: any two sets of its execution
\* names, any map of them to output bags, any pipeline inputs
ProbeSnapshots(pipeline) ==
  LET names == {getStepExecutionName(pipeline.steps[i]) :
                  i \in 1..Len(pipeline.steps)}
  IN [completedSteps : SUBSET names,
      enqueuedSteps : SUBSET names,
      availableOutputs : [names -> {AbsentFile} \cup {ObjFile(b) : b \in ProbeBags}],
      pipelineInputs : InputBags]

Init ==
  /\ queue = << >>
  /\ meta = [r \in RunIds |-> NoMeta]
  /\ inputsFiles = [r \in RunIds |-> [n \in InputFileNames |-> AbsentFile]]
  /\ outputsFiles = [r \in RunIds |-> [n \in ExecNames |-> AbsentFile]]
  /\ logs = [r \in RunIds |-> [n \in ExecNames |-> << >>]]
  /\ wk = [w \in Workers |-> IdleWorker]
  /\ failures = 0
  /\ deployment \in Deployments
  /\ probe = NoProbe

\* ------------------------------------------------------------------- store
\* FileRunStore.readPipelineInputs
readPipelineInputs(runId) == inputsFiles[runId]["pipeline"].bag
\* FileRunStore.listCompletedSteps: the names with a file under outputs/
listCompletedSteps(runId) ==
  {n \in ExecNames : outputsFiles[runId][n].kind # "absent"}
\* FileRunStore.loadAllOutputs
loadAllOutputs(runId) == outputsFiles[runId]
\* an appendQueueItem that puts the item in front (unshift for push)
appendQueueItemInFront(q, item) == << item >> \o q
\* FileRunStore.appendQueueItem, on the queue q
appendQueueItem(q, item) == Append(q, item)
\* FileRunStore.appendLog, on the streams of all runs
appendLog(streams, runId, stepId, entry) ==
  [streams EXCEPT ![runId][stepId] = Append(@, entry)]
\* FileRunStore.updateRunStatus, on the metadata of all runs
updateRunStatus(m, runId, status) == [m EXCEPT ![runId].status = status]
\* FileRunStore.writeStepOutput: the file JSON.stringify(outputs) leaves
writeStepOutput(files, runId, stepId, result) ==
  [files EXCEPT ![runId][stepId] =
     IF result.kind = "obj" THEN ObjFile(result.bag)
     ELSE IF result.kind = "prim" THEN PrimFile ELSE NullFile]
\* FileRunStore.writeStepInput
writeStepInput(files, runId, stepId, inputs) ==
  [files EXCEPT ![runId][stepId] = ObjFile(inputs)]

\* ------------------------------------------------------------ orchestrator
\* executeQueueItem without its updateRunStatus('running')
markRunningSkipped(m, runId) == m
\* a catch branch that does not put the item back
requeueDropped(q, item) == q

\* executeQueueItem line 91
markRunning(m, runId) == updateRunStatus(m, runId, "running")
\* executeQueueItem line 120
requeue(q, item) == appendQueueItem(q, item)

\* PipelineRunner.collectEnqueuedSteps
collectEnqueuedSteps(pipelineId, runId) ==
  {queue[i].stepId : i \in {j \in 1..Len(queue) :
      queue[j].pipelineId = pipelineId /\ queue[j].runId = runId}}

\* the loop of enqueueRunnableSteps without its enqueuedSteps.has check
RECURSIVE enqueueFromUnchecked(_, _, _, _, _, _)
enqueueFromUnchecked(q, pipelineId, runId, runnable, i, enqueuedSteps) ==
  IF i > Len(runnable) THEN q
  ELSE enqueueFromUnchecked(
         appendQueueItem(q, QueueItem(pipelineId, runId, runnable[i])),
         pipelineId, runId, runnable, i + 1, enqueuedSteps)

\* The loop of enqueueRunnableSteps over `runnable` from index i on: the
\* queue after it.
RECURSIVE enqueueFrom(_, _, _, _, _, _)
enqueueFrom(q, pipelineId, runId, runnable, i, enqueuedSteps) ==
  IF i > Len(runnable) THEN q
  ELSE IF runnable[i] \in enqueuedSteps
  THEN enqueueFrom(q, pipelineId, runId, runnable, i + 1, enqueuedSteps)
  ELSE enqueueFrom(appendQueueItem(q, QueueItem(pipelineId, runId, runnable[i])),
                   pipelineId, runId, runnable, i + 1,
                   enqueuedSteps \cup {runnable[i]})

\* an enqueueRunnableSteps that stops after the first runnable step
enqueueFirstRunnableStep(q, pipeline, runId, availableOutputs, enqueuedSteps, pipelineInputs, completedSteps) ==
  LET snapshot == [completedSteps |-> completedSteps,
                   enqueuedSteps |-> enqueuedSteps,
                   availableOutputs |-> availableOutputs,
                   pipelineInputs |-> pipelineInputs]
      runnable == computeRunnableSteps(pipeline, snapshot)
  IN IF runnable.threw THEN [threw |-> TRUE, queue |-> q]
     ELSE [threw |-> FALSE,
           queue |-> enqueueFrom(q, pipeline.id, runId,
                                 IF runnable.names = << >> THEN << >>
                                 ELSE << Head(runnable.names) >>,
                                 1, enqueuedSteps)]

\* PipelineRunner.enqueueRunnableSteps on the queue q, given what its two
\* store reads (readPipelineInputs, listCompletedSteps) return: [threw, queue]
enqueueRunnableSteps(q, pipeline, runId, availableOutputs, enqueuedSteps, pipelineInputs, completedSteps) ==
  LET snapshot == [completedSteps |-> completedSteps,
                   enqueuedSteps |-> enqueuedSteps,
                   availableOutputs |-> availableOutputs,
                   pipelineInputs |-> pipelineInputs]
      runnable == computeRunnableSteps(pipeline, snapshot)
  IN IF runnable.threw THEN [threw |-> TRUE, queue |-> q]
     ELSE [threw |-> FALSE,
           queue |-> enqueueFrom(q, pipeline.id, runId, runnable.names, 1,
                                 enqueuedSteps)]

\* PipelineRunner.createRun: the run ids are allocated in order (randomUUID
\* never repeats one)
CreateRun(pipelineId, initialInputs) ==
  LET runId == Cardinality({r \in RunIds : meta[r].exists}) + 1
      metadata == [exists |-> TRUE, pipelineId |-> pipelineId, status |-> "pending"]
      seeded == enqueueRunnableSteps(queue, load(pipelineId), runId,
                                     [n \in {} |-> AbsentFile], {},
                                     initialInputs, listCompletedSteps(runId))
  IN /\ runId <= deployment.runs
     /\ meta' = [meta EXCEPT ![runId] = metadata]
     /\ inputsFiles' = [inputsFiles EXCEPT ![runId]["pipeline"] = ObjFile(initialInputs)]
     /\ queue' = seeded.queue
     /\ UNCHANGED << outputsFiles, logs, wk, failures, deployment, probe >>

\* a tick that hands whatever popQueueItem returned to executeQueueItem
PopUnguarded(w) ==
  /\ wk[w].pc = "idle"
  /\ failures <= deployment.failures
  /\ wk' = [wk EXCEPT ![w] =
              [IdleWorker EXCEPT
                 !.pc = "begin",
                 !.item = IF queue = << >> THEN NoItem ELSE Head(queue)]]
  /\ queue' = IF queue = << >> THEN queue ELSE Tail(queue)
  /\ UNCHANGED << meta, inputsFiles, outputsFiles, logs, failures, deployment,
                  probe >>

\* PipelineRunner.tick, line 73: popQueueItem; an empty queue returns null
Pop(w) ==
  /\ wk[w].pc = "idle"
  /\ failures <= deployment.failures
  /\ IF queue = << >>
     THEN /\ wk' = [wk EXCEPT ![w] = IdleWorker]
          /\ UNCHANGED queue
     ELSE /\ wk' = [wk EXCEPT ![w] =
                    [IdleWorker EXCEPT
                       !.pc = "begin", !.item = Head(queue),
                       !.logAtPop = logs[Head(queue).runId][Head(queue).stepId],
                       !.outputAtPop =
                          outputsFiles[Head(queue).runId][Head(queue).stepId]]]
          /\ queue' = Tail(queue)
  /\ UNCHANGED << meta, inputsFiles, outputsFiles, logs, failures, deployment, probe >>

\* the step configuration of the item a worker holds
StepOf(item) ==
  load(item.pipelineId).steps[findStepByExecutionName(load(item.pipelineId), item.stepId)]

\* an executeQueueItem whose try block starts at its first line: a step or
\* manifest that is not found goes to the catch branch
BeginCaught(w) ==
  LET item == wk[w].item
      pipeline == load(item.pipelineId)
      found == findStepByExecutionName(pipeline, item.stepId)
      fatal == found = 0 \/ pipeline.steps[found].stepId \notin Manifests
  IN /\ wk[w].pc = "begin"
     /\ wk' = [wk EXCEPT ![w] =
          IF fatal THEN [@ EXCEPT !.pc = "retry", !.error = "not found"]
          ELSE [@ EXCEPT !.pc = "snapshot",
                         !.pipelineInputs = readPipelineInputs(item.runId),
                         !.enqueuedSteps =
                            collectEnqueuedSteps(item.pipelineId, item.runId),
                         !.completedOutputs = loadAllOutputs(item.runId)]]
     /\ meta' = IF fatal THEN meta ELSE markRunning(meta, item.runId)
     /\ UNCHANGED << queue, inputsFiles, outputsFiles, logs, failures,
                     deployment, probe >>

\* executeQueueItem, lines 82-91: the reads, which raise when the step or
\* its manifest is not found, then updateRunStatus('running')
Begin(w) ==
  LET item == wk[w].item
      pipeline == load(item.pipelineId)
      found == findStepByExecutionName(pipeline, item.stepId)
      fatal == found = 0 \/ pipeline.steps[found].stepId \notin Manifests
  IN /\ wk[w].pc = "begin"
     /\ wk' = [wk EXCEPT ![w] =
          IF fatal THEN IdleWorker
          ELSE [@ EXCEPT !.pc = "snapshot",
                         !.pipelineInputs = readPipelineInputs(item.runId),
                         !.enqueuedSteps =
                            collectEnqueuedSteps(item.pipelineId, item.runId),
                         !.completedOutputs = loadAllOutputs(item.runId)]]
     /\ meta' = IF fatal THEN meta ELSE markRunning(meta, item.runId)
     /\ UNCHANGED << queue, inputsFiles, outputsFiles, logs, failures, deployment, probe >>

\* lines 92-97: materializeInputs, which raises on a dependency without an
\* output bag, then writeStepInput and the 'Step started' entry
Snapshot(w) ==
  LET item == wk[w].item
      m == materializeInputs(StepOf(item).inputs, wk[w].pipelineInputs,
                             wk[w].completedOutputs)
  IN /\ wk[w].pc = "snapshot"
     /\ IF m.threw
        THEN /\ wk' = [wk EXCEPT ![w] = IdleWorker]
             /\ UNCHANGED << inputsFiles, logs >>
        ELSE /\ wk' = [wk EXCEPT ![w].pc = "execute", ![w].inputs = m.inputs]
             /\ inputsFiles' = writeStepInput(inputsFiles, item.runId, item.stepId, m.inputs)
             /\ logs' = appendLog(logs, item.runId, item.stepId,
                                  LogEntry("info", "Step started", None))
     /\ UNCHANGED << queue, meta, outputsFiles, failures, deployment, probe >>

\* lines 99-105: the executor runs, its log calls appending to the stream
Execute(w) ==
  LET item == wk[w].item
  IN /\ wk[w].pc = "execute"
     /\ \E result \in executeStep(StepOf(item).stepId, wk[w].inputs) :
          /\ logs' = [logs EXCEPT ![item.runId][item.stepId] =
                        @ \o [i \in 1..Len(result.logs) |->
                                LogEntry("info", result.logs[i], None)]]
          /\ wk' = [wk EXCEPT ![w] =
                      IF result.kind = "throw"
                      THEN [@ EXCEPT !.pc = "retry", !.error = ErrStep]
                      ELSE [@ EXCEPT !.pc = "persist", !.result = result]]
     /\ UNCHANGED << queue, meta, inputsFiles, outputsFiles, failures, deployment, probe >>

\* lines 106-110: writeStepOutput and the 'Step completed' entry.  writeJson
\* of an undefined `outputs` hands fs.writeFile undefined, which raises
\* before the file is opened.
Persist(w) ==
  LET item == wk[w].item
  IN /\ wk[w].pc = "persist"
     /\ IF wk[w].result.kind = "nooutputs"
        THEN /\ wk' = [wk EXCEPT ![w].pc = "retry", ![w].error = ErrWrite]
             /\ UNCHANGED << outputsFiles, logs >>
        ELSE /\ outputsFiles' =
                  writeStepOutput(outputsFiles, item.runId, item.stepId, wk[w].result)
             /\ logs' = appendLog(logs, item.runId, item.stepId,
                                  LogEntry("info", "Step completed", None))
             /\ wk' = [wk EXCEPT ![w].pc = "expand"]
     /\ UNCHANGED << queue, meta, inputsFiles, failures, deployment, probe >>

\* a completion test that only looks at the queue
runIsCompleteWhenDrained(pipeline, runId, completed, q) ==
  ~\E i \in 1..Len(q) : q[i].pipelineId = pipeline.id /\ q[i].runId = runId

\* a completion test that wants the whole queue empty, other runs' items
\* included
runIsCompleteWhenQueueEmpty(pipeline, runId, completed, q) ==
  /\ \A i \in 1..Len(pipeline.steps) :
       getStepExecutionName(pipeline.steps[i]) \in completed
  /\ q = << >>

\* PipelineRunner.evaluateRunCompletion: whether it sets `completed`, given
\* what its two store reads (listCompletedSteps, readQueue) return
runIsComplete(pipeline, runId, completed, q) ==
  LET remaining == {i \in 1..Len(pipeline.steps) :
                      getStepExecutionName(pipeline.steps[i]) \notin completed}
      inQueue == \E i \in 1..Len(q) :
                   q[i].pipelineId = pipeline.id /\ q[i].runId = runId
  IN remaining = {} /\ ~inQueue

\* an executeQueueItem that ends after enqueueRunnableSteps, without
\* evaluateRunCompletion
ExpandWithoutCompletion(w) ==
  LET item == wk[w].item
      e == enqueueRunnableSteps(queue, load(item.pipelineId), item.runId,
                                loadAllOutputs(item.runId), wk[w].enqueuedSteps,
                                readPipelineInputs(item.runId),
                                listCompletedSteps(item.runId))
  IN /\ wk[w].pc = "expand"
     /\ IF e.threw
        THEN /\ wk' = [wk EXCEPT ![w].pc = "retry", ![w].error = ErrIn]
             /\ UNCHANGED queue
        ELSE /\ queue' = e.queue
             /\ wk' = [wk EXCEPT ![w] = IdleWorker]
     /\ UNCHANGED << meta, inputsFiles, outputsFiles, logs, failures, deployment, probe >>

\* lines 111-113: reload the outputs, enqueue what became runnable (the
\* resolver raises on an output file that holds a primitive), evaluate the
\* run's completion; tick then returns the item
Expand(w) ==
  LET item == wk[w].item
      pipeline == load(item.pipelineId)
      refreshedOutputs == loadAllOutputs(item.runId)
      e == enqueueRunnableSteps(queue, pipeline, item.runId,
                                refreshedOutputs, wk[w].enqueuedSteps,
                                readPipelineInputs(item.runId),
                                listCompletedSteps(item.runId))
  IN /\ wk[w].pc = "expand"
     /\ IF e.threw
        THEN /\ wk' = [wk EXCEPT ![w].pc = "retry", ![w].error = ErrIn]
             /\ UNCHANGED << queue, meta >>
        ELSE /\ queue' = e.queue
             /\ meta' = IF runIsComplete(pipeline, item.runId,
                                         listCompletedSteps(item.runId), e.queue)
                        THEN updateRunStatus(meta, item.runId, "completed")
                        ELSE meta
             /\ wk' = [wk EXCEPT ![w] = IdleWorker]
     /\ UNCHANGED << inputsFiles, outputsFiles, logs, failures, deployment, probe >>

\* a catch branch that gives up: the run is marked failed, the item dropped
RetryGivingUp(w) ==
  /\ wk[w].pc = "retry"
  /\ logs' = appendLog(logs, wk[w].item.runId, wk[w].item.stepId,
                       LogEntry("error", "Step failed", wk[w].error))
  /\ meta' = updateRunStatus(meta, wk[w].item.runId, "failed")
  /\ wk' = [wk EXCEPT ![w] = IdleWorker]
  /\ failures' = failures + 1
  /\ UNCHANGED << queue, inputsFiles, outputsFiles, deployment, probe >>

\* a catch branch that runs the step again at once instead of re-enqueueing
RetryInPlace(w) ==
  /\ wk[w].pc = "retry"
  /\ logs' = appendLog(logs, wk[w].item.runId, wk[w].item.stepId,
                       LogEntry("error", "Step failed", wk[w].error))
  /\ wk' = [wk EXCEPT ![w].pc = "execute"]
  /\ failures' = failures + 1
  /\ UNCHANGED << queue, meta, inputsFiles, outputsFiles, deployment, probe >>

\* lines 114-121: the catch branch logs the error and puts the item back;
\* tick then returns the item
Retry(w) ==
  LET item == wk[w].item
  IN /\ wk[w].pc = "retry"
     /\ logs' = appendLog(logs, item.runId, item.stepId,
                          LogEntry("error", "Step failed", wk[w].error))
     /\ queue' = requeue(queue, item)
     /\ wk' = [wk EXCEPT ![w] = IdleWorker]
     /\ failures' = failures + 1
     /\ UNCHANGED << meta, inputsFiles, outputsFiles, deployment, probe >>

\* one step of a tick of worker w
Tick(w) ==
  \/ Pop(w) \/ Begin(w) \/ Snapshot(w) \/ Execute(w)
  \/ Persist(w) \/ Expand(w) \/ Retry(w)

\* a call of createRun between two ticks
NewRun ==
  /\ \A w \in Workers : wk[w].pc = "idle"
  /\ \E pipelineId \in deployment.pipelines, initialInputs \in InputBags :
       CreateRun(pipelineId, initialInputs)

\* a single process that calls createRun and tick one after the other
Next == NewRun \/ Tick("w1")

Spec == Init /\ [][Next]_vars

\* the same process on the deployment of the unusual pipelines
InitOdd ==
  /\ queue = << >>
  /\ meta = [r \in RunIds |-> NoMeta]
  /\ inputsFiles = [r \in RunIds |-> [n \in InputFileNames |-> AbsentFile]]
  /\ outputsFiles = [r \in RunIds |-> [n \in ExecNames |-> AbsentFile]]
  /\ logs = [r \in RunIds |-> [n \in ExecNames |-> << >>]]
  /\ wk = [w \in Workers |-> IdleWorker]
  /\ failures = 0
  /\ deployment = OddDeployment
  /\ probe = NoProbe

SpecOdd == InitOdd /\ [][Next]_vars

\* ------------------------------------------------------- crash and resume
\* The process dies inside tick: what executeQueueItem held in memory is
\* gone, the store stays as the writes so far left it, and the next process
\* starts with a fresh tick.
Crash(w) ==
  /\ wk[w].pc # "idle"
  /\ wk' = [wk EXCEPT ![w] = IdleWorker]
  /\ UNCHANGED << queue, meta, inputsFiles, outputsFiles, logs, failures,
                  deployment, probe >>

NextCrash == NewRun \/ Tick("w1") \/ Crash("w1")

SpecCrash == Init /\ [][NextCrash]_vars

\* ------------------------------------------- the store called a second time
\* FileRunStore.initRun for a run that has its record already (the same
\* pipelineId and runId, hence the same directory): ensureDir accepts the
\* directory that exists and writeJson replaces both files
InitRunAgain ==
  /\ \A w \in Workers : wk[w].pc = "idle"
  /\ \E runId \in RunIds, initialInputs \in InputBags :
       /\ meta[runId].exists
       /\ meta' = [meta EXCEPT ![runId] =
                     [exists |-> TRUE, pipelineId |-> meta[runId].pipelineId,
                      status |-> "pending"]]
       /\ inputsFiles' = [inputsFiles EXCEPT ![runId]["pipeline"] =
                            ObjFile(initialInputs)]
  /\ UNCHANGED << queue, outputsFiles, logs, wk, failures, deployment, probe >>

NextStore == NewRun \/ Tick("w1") \/ InitRunAgain

SpecStore == Init /\ [][NextStore]_vars

\* ------------------------------------- two workers, queue.json unlocked
\* popQueueItem and appendQueueItem are a readQueue followed by a writeQueue
\* with nothing that locks queue.json in between: here the two halves are
\* separate steps, and the copy readQueue returned is held by the worker.
RaceDeployment == Deployment({"sample"}, MaxRuns + 1, MaxFailures)

InitRace ==
  /\ queue = << >>
  /\ meta = [r \in RunIds |-> NoMeta]
  /\ inputsFiles = [r \in RunIds |-> [n \in InputFileNames |-> AbsentFile]]
  /\ outputsFiles = [r \in RunIds |-> [n \in ExecNames |-> AbsentFile]]
  /\ logs = [r \in RunIds |-> [n \in ExecNames |-> << >>]]
  /\ wk = [w \in Workers |-> IdleWorker]
  /\ failures = 0
  /\ deployment = RaceDeployment
  /\ probe = NoProbe

\* popQueueItem, its readQueue.  The ticking stops once MaxAttempts attempts
\* have been started (the 'Step started' entries of all streams).
Attempts ==
  Cardinality(UNION {{<< r, n, i >> : i \in {j \in 1..Len(logs[r][n]) :
                        logs[r][n][j].message = "Step started"}} :
                     << r, n >> \in RunIds \X ExecNames})
PopRead(w) ==
  /\ wk[w].pc = "idle"
  /\ failures <= deployment.failures
  /\ Attempts < MaxAttempts
  /\ wk' = [wk EXCEPT ![w] = [IdleWorker EXCEPT !.pc = "popwrite",
                                                 !.queueRead = queue]]
  /\ UNCHANGED << queue, meta, inputsFiles, outputsFiles, logs, failures,
                  deployment, probe >>

\* a popQueueItem that holds a lock from its read on: it shifts the queue
\* as it is when it writes
PopWriteLocked(w) ==
  /\ wk[w].pc = "popwrite"
  /\ queue' = IF queue = << >> THEN << >> ELSE Tail(queue)
  /\ wk' = [wk EXCEPT ![w] =
       IF queue = << >> THEN IdleWorker
       ELSE [IdleWorker EXCEPT
               !.pc = "begin", !.item = Head(queue),
               !.logAtPop = logs[Head(queue).runId][Head(queue).stepId],
               !.outputAtPop = outputsFiles[Head(queue).runId][Head(queue).stepId]]]
  /\ UNCHANGED << meta, inputsFiles, outputsFiles, logs, failures, deployment,
                  probe >>

\* popQueueItem, its shift and writeQueue: the copy it read, less its head,
\* replaces the file (an empty copy is written back too); tick returns null
\* when there was no head
PopWrite(w) ==
  LET q == wk[w].queueRead
  IN /\ wk[w].pc = "popwrite"
     /\ queue' = IF q = << >> THEN << >> ELSE Tail(q)
     /\ wk' = [wk EXCEPT ![w] =
          IF q = << >> THEN IdleWorker
          ELSE [IdleWorker EXCEPT
                  !.pc = "begin", !.item = Head(q),
                  !.logAtPop = logs[Head(q).runId][Head(q).stepId],
                  !.outputAtPop = outputsFiles[Head(q).runId][Head(q).stepId]]]
     /\ UNCHANGED << meta, inputsFiles, outputsFiles, logs, failures,
                     deployment, probe >>

\* lines 111-112 as far as the loop of enqueueRunnableSteps: the store reads
\* and the resolver; `pending` is what the loop will append, one
\* appendQueueItem after the other
ExpandResolve(w) ==
  LET item == wk[w].item
      pipeline == load(item.pipelineId)
      e == enqueueRunnableSteps(<< >>, pipeline, item.runId,
                                loadAllOutputs(item.runId), wk[w].enqueuedSteps,
                                readPipelineInputs(item.runId),
                                listCompletedSteps(item.runId))
  IN /\ wk[w].pc = "expand"
     /\ wk' = [wk EXCEPT ![w] =
          IF e.threw THEN [@ EXCEPT !.pc = "retry", !.error = ErrIn]
          ELSE [@ EXCEPT !.pc = "append", !.pending = e.queue]]
     /\ UNCHANGED << queue, meta, inputsFiles, outputsFiles, logs, failures,
                     deployment, probe >>

\* appendQueueItem of the loop, its readQueue
AppendRead(w) ==
  /\ wk[w].pc = "append"
  /\ wk[w].pending # << >>
  /\ wk' = [wk EXCEPT ![w].pc = "appendwrite", ![w].queueRead = queue]
  /\ UNCHANGED << queue, meta, inputsFiles, outputsFiles, logs, failures,
                  deployment, probe >>

\* an appendQueueItem that holds a lock from its read on
AppendWriteLocked(w) ==
  /\ wk[w].pc = "appendwrite"
  /\ queue' = appendQueueItem(queue, Head(wk[w].pending))
  /\ wk' = [wk EXCEPT ![w].pc = "append", ![w].pending = Tail(@),
                      ![w].queueRead = << >>]
  /\ UNCHANGED << meta, inputsFiles, outputsFiles, logs, failures, deployment,
                  probe >>

\* appendQueueItem of the loop, its push and writeQueue: the copy it read,
\* with the item at its end, replaces the file
AppendWrite(w) ==
  /\ wk[w].pc = "appendwrite"
  /\ queue' = appendQueueItem(wk[w].queueRead, Head(wk[w].pending))
  /\ wk' = [wk EXCEPT ![w].pc = "append", ![w].pending = Tail(@),
                      ![w].queueRead = << >>]
  /\ UNCHANGED << meta, inputsFiles, outputsFiles, logs, failures, deployment,
                  probe >>

\* line 113, after the loop: evaluateRunCompletion; tick returns the item
Complete(w) ==
  LET item == wk[w].item
  IN /\ wk[w].pc = "append"
     /\ wk[w].pending = << >>
     /\ meta' = IF runIsComplete(load(item.pipelineId), item.runId,
                                 listCompletedSteps(item.runId), queue)
                THEN updateRunStatus(meta, item.runId, "completed")
                ELSE meta
     /\ wk' = [wk EXCEPT ![w] = IdleWorker]
     /\ UNCHANGED << queue, inputsFiles, outputsFiles, logs, failures,
                     deployment, probe >>

\* one step of a tick of worker w, popQueueItem and the appendQueueItem
\* calls of the resolver pass taken apart.  The executors of the sample
\* pipeline do not throw, so no tick of this deployment enters the catch
\* branch.
RaceTick(w) ==
  \/ PopRead(w) \/ PopWrite(w) \/ Begin(w) \/ Snapshot(w) \/ Execute(w)
  \/ Persist(w) \/ ExpandResolve(w) \/ AppendRead(w) \/ AppendWrite(w)
  \/ Complete(w)

NextRace == NewRun \/ RaceTick("w1") \/ RaceTick("w2")

SpecRace == InitRace /\ [][NextRace]_vars

\* --------------------------------------------- a worker that keeps ticking
\* The deployment of the well-formed pipelines, with step modules that throw
\* or return an `outputs` object holding the key their dependants bind, and
\* that throw deployment.failures times at most between them (each step
\* succeeds in the end when it is retried).
LiveDeployment == Deployment({"sample", "dup", "fan"}, MaxRuns, MaxFailures)

InitLive ==
  /\ queue = << >>
  /\ meta = [r \in RunIds |-> NoMeta]
  /\ inputsFiles = [r \in RunIds |-> [n \in InputFileNames |-> AbsentFile]]
  /\ outputsFiles = [r \in RunIds |-> [n \in ExecNames |-> AbsentFile]]
  /\ logs = [r \in RunIds |-> [n \in ExecNames |-> << >>]]
  /\ wk = [w \in Workers |-> IdleWorker]
  /\ failures = 0
  /\ deployment = LiveDeployment
  /\ probe = NoProbe

\* lines 99-105 with such a step module
ExecuteWellBehaved(w) ==
  LET item == wk[w].item
  IN /\ wk[w].pc = "execute"
     /\ \E result \in executeStep(StepOf(item).stepId, wk[w].inputs) :
          /\ \/ result.kind = "throw" /\ failures < deployment.failures
             \/ result.kind = "obj" /\ Has(result.bag, "text")
          /\ logs' = [logs EXCEPT ![item.runId][item.stepId] =
                        @ \o [i \in 1..Len(result.logs) |->
                                LogEntry("info", result.logs[i], None)]]
          /\ wk' = [wk EXCEPT ![w] =
                      IF result.kind = "throw"
                      THEN [@ EXCEPT !.pc = "retry", !.error = ErrStep]
                      ELSE [@ EXCEPT !.pc = "persist", !.result = result]]
     /\ UNCHANGED << queue, meta, inputsFiles, outputsFiles, failures,
                     deployment, probe >>

LiveTick(w) ==
  \/ Pop(w) \/ Begin(w) \/ Snapshot(w) \/ ExecuteWellBehaved(w)
  \/ Persist(w) \/ Expand(w) \/ Retry(w)

NextLive == NewRun \/ LiveTick("w1")

\* the loop around tick of the worker never stops: a tick that can take a
\* step takes it
SpecLive == InitLive /\ [][NextLive]_vars /\ WF_vars(LiveTick("w1"))

\* ------------------------------------------ two workers, atomic queue calls
\* Two processes tick on the same store; every popQueueItem and
\* appendQueueItem is taken as one step.
TwoDeployment == Deployment({"fan"}, MaxRuns, MaxFailures - 2)

InitTwo ==
  /\ queue = << >>
  /\ meta = [r \in RunIds |-> NoMeta]
  /\ inputsFiles = [r \in RunIds |-> [n \in InputFileNames |-> AbsentFile]]
  /\ outputsFiles = [r \in RunIds |-> [n \in ExecNames |-> AbsentFile]]
  /\ logs = [r \in RunIds |-> [n \in ExecNames |-> << >>]]
  /\ wk = [w \in Workers |-> IdleWorker]
  /\ failures = 0
  /\ deployment = TwoDeployment
  /\ probe = NoProbe

NextTwo == NewRun \/ Tick("w1") \/ Tick("w2")

SpecTwo == InitTwo /\ [][NextTwo]_vars

\* ------------------------------------------------------ the resolver alone
\* computeRunnableSteps applied to a pipeline of the catalogue and a snapshot
\* drawn from ProbeSnapshots
InitResolver ==
  /\ queue = << >>
  /\ meta = [r \in RunIds |-> NoMeta]
  /\ inputsFiles = [r \in RunIds |-> [n \in InputFileNames |-> AbsentFile]]
  /\ outputsFiles = [r \in RunIds |-> [n \in ExecNames |-> AbsentFile]]
  /\ logs = [r \in RunIds |-> [n \in ExecNames |-> << >>]]
  /\ wk = [w \in Workers |-> IdleWorker]
  /\ failures = 0
  /\ deployment \in Deployments \cup {KeyedDeployment}
  /\ \E pipeline \in Pipelines :
       /\ pipeline.id \in deployment.pipelines
       /\ \E snapshot \in ProbeSnapshots(pipeline) :
            probe = [pipeline |-> pipeline, snapshot |-> snapshot,
                     called |-> FALSE, result |-> NoRunnable]

Resolve ==
  /\ ~probe.called
  /\ probe' = [probe EXCEPT
                 !.called = TRUE,
                 !.result = computeRunnableSteps(probe.pipeline, probe.snapshot)]
  /\ UNCHANGED << queue, meta, inputsFiles, outputsFiles, logs, wk, failures,
                  deployment >>

SpecResolver == InitResolver /\ [][Resolve]_vars

\* ------------------------------------------------------------------ claims
Idle == \A w \in Workers : wk[w].pc = "idle"
HasOutput(runId, name) == outputsFiles[runId][name].kind # "absent"
InQueue(runId, name) ==
  \E i \in 1..Len(queue) : queue[i].runId = runId /\ queue[i].stepId = name

\* C1: a step that has an output record is never handed to the executor again
C1_NoReExecution ==
  \A w \in Workers :
    wk[w].pc = "execute" => ~HasOutput(wk[w].item.runId, wk[w].item.stepId)

\* C2: at input materialization every step-sourced binding of the step has a
\* dependency with an output record that contains the referenced key, and
\* materializeInputs does not raise
BindingReady(runId, input) ==
  input.binding.source = "step" =>
    LET file == Get(outputsFiles[runId], input.binding.stepId)
        outputKey == IF input.binding.output = None THEN input.name
                     ELSE input.binding.output
    IN file.kind = "obj" /\ Has(file.bag, outputKey)
C2_DependenciesReady ==
  \A w \in Workers :
    wk[w].pc = "snapshot" =>
      LET inputs == StepOf(wk[w].item).inputs
      IN /\ \A i \in 1..Len(inputs) : BindingReady(wk[w].item.runId, inputs[i])
         /\ ~materializeInputs(inputs, wk[w].pipelineInputs,
                               wk[w].completedOutputs).threw

\* C3: between operations, a run is `completed` exactly when every execution
\* name of its pipeline has an output record and the queue holds none of its items
AllDone(runId) ==
  LET pipeline == load(meta[runId].pipelineId)
  IN /\ \A i \in 1..Len(pipeline.steps) :
          HasOutput(runId, getStepExecutionName(pipeline.steps[i]))
     /\ ~\E i \in 1..Len(queue) :
          queue[i].pipelineId = pipeline.id /\ queue[i].runId = runId
C3_CompletedIff ==
  Idle => \A r \in RunIds :
    meta[r].exists => (meta[r].status = "completed" <=> AllDone(r))

\* C4: the queue never holds two items for the same run and execution name
C4_QueueUnique ==
  \A i, j \in 1..Len(queue) : queue[i] = queue[j] => i = j
\* a run of the pipeline whose two steps share the name "x", both runnable,
\* has its one item in the queue again after a caught failure
C4_Witness ==
  \E r \in RunIds :
    /\ meta[r].exists /\ meta[r].pipelineId = "dup"
    /\ Has(readPipelineInputs(r), "text")
    /\ InQueue(r, "x")
    /\ logs[r]["x"] # << >>
    /\ logs[r]["x"][Len(logs[r]["x"])].message = "Step failed"

\* C5: an output record, once written, is never changed or deleted
C5_OutputWriteOnce ==
  [][\A r \in RunIds, n \in ExecNames :
       HasOutput(r, n) => outputsFiles'[r][n] = outputsFiles[r][n]]_vars

\* C6: computeRunnableSteps returns, in definition order, exactly the
\* execution names of the steps that are not completed, not enqueued, whose
\* pipeline-sourced keys are in the pipeline inputs and whose step-sourced
\* bindings name a step of availableOutputs whose bag has the referenced key
BindingSatisfiable(input, snapshot) ==
  /\ input.binding.source = "pipeline" =>
       /\ input.binding.key \in DOMAIN snapshot.pipelineInputs
       /\ snapshot.pipelineInputs[input.binding.key] # Undef
  /\ input.binding.source = "step" =>
       LET outputKey == IF input.binding.output = None THEN input.name
                        ELSE input.binding.output
       IN /\ input.binding.stepId \in DOMAIN snapshot.availableOutputs
          /\ snapshot.availableOutputs[input.binding.stepId].kind = "obj"
          /\ snapshot.availableOutputs[input.binding.stepId].bag[outputKey] # Undef
Eligible(pipeline, snapshot) ==
  {i \in 1..Len(pipeline.steps) :
     LET step == pipeline.steps[i]
         name == IF step.alias = None THEN step.stepId ELSE step.alias
     IN /\ name \notin snapshot.completedSteps
        /\ name \notin snapshot.enqueuedSteps
        /\ \A k \in 1..Len(step.inputs) : BindingSatisfiable(step.inputs[k], snapshot)}
ExpectedRunnable(pipeline, snapshot) ==
  LET eligible == Eligible(pipeline, snapshot)
      nth(k) == CHOOSE i \in eligible : Cardinality({j \in eligible : j <= i}) = k
  IN [k \in 1..Cardinality(eligible) |->
        LET step == pipeline.steps[nth(k)]
        IN IF step.alias = None THEN step.stepId ELSE step.alias]
C6_ResolverExact ==
  probe.called =>
    /\ ~probe.result.threw
    /\ probe.result.names = ExpectedRunnable(probe.pipeline, probe.snapshot)
\* the resolver returned two of the three steps of the fan pipeline, in order
C6_Witness ==
  /\ probe.called
  /\ probe.pipeline.id = "fan"
  /\ probe.result.names = << "z", "b" >>

\* C7: a run of the sample pipeline on {text: "hello"}: createRun leaves the
\* echo item alone in the queue and status pending; the first tick writes
\* echo's output, enqueues uppercase and leaves status running; the second
\* writes uppercase's output, leaves no item of the run, sets status completed
ItemsOf(runId) == SelectSeq(queue, LAMBDA item : item.runId = runId)
Started(runId) ==
  Cardinality(UNION {{<< n, i >> : i \in {j \in 1..Len(logs[runId][n]) :
                                           logs[runId][n][j].message = "Step started"}} :
                     n \in ExecNames})
C7_SampleScenario ==
  Idle => \A r \in RunIds :
    ( /\ meta[r].exists
      /\ meta[r].pipelineId = "sample"
      /\ readPipelineInputs(r) = TextBag("hello") )
    => \/ /\ Started(r) = 0
          /\ ItemsOf(r) = << QueueItem("sample", r, "echo") >>
          /\ meta[r].status = "pending"
          /\ listCompletedSteps(r) = {}
       \/ /\ Started(r) = 1
          /\ outputsFiles[r]["echo"] = ObjFile(TextBag("hello"))
          /\ listCompletedSteps(r) = {"echo"}
          /\ ItemsOf(r) = << QueueItem("sample", r, "uppercase") >>
          /\ meta[r].status = "running"
       \/ /\ Started(r) = 2
          /\ outputsFiles[r]["echo"] = ObjFile(TextBag("hello"))
          /\ outputsFiles[r]["uppercase"] = ObjFile(TextBag("HELLO"))
          /\ ItemsOf(r) = << >>
          /\ meta[r].status = "completed"
\* the sample run after its second tick
C7_Witness ==
  /\ Idle
  /\ \E r \in RunIds :
       /\ meta[r].exists /\ meta[r].pipelineId = "sample"
       /\ outputsFiles[r]["uppercase"] = ObjFile(TextBag("HELLO"))
       /\ meta[r].status = "completed"

\* C8: the tick in which the executor raised ends with status running, one
\* 'Step failed' entry with the error message appended to the step's stream,
\* the step's output record as the tick found it, and the item in the queue
AppendedSince(before, after) ==
  IF Len(after) >= Len(before) /\ SubSeq(after, 1, Len(before)) = before
  THEN SubSeq(after, Len(before) + 1, Len(after))
  ELSE << LogEntry("error", "stream rewritten", None) >>
C8_ExecutorErrorRetried ==
  [][\A w \in Workers :
       (wk[w].pc = "retry" /\ wk[w].error = ErrStep) =>
         LET item == wk[w].item
             appended == AppendedSince(wk[w].logAtPop, logs'[item.runId][item.stepId])
             failed == {i \in 1..Len(appended) : appended[i].message = "Step failed"}
         IN /\ wk'[w].pc = "idle"
            /\ meta'[item.runId].status = "running"
            /\ Cardinality(failed) = 1
            /\ \A i \in failed : appended[i].error = ErrStep
            /\ outputsFiles'[item.runId][item.stepId] = wk[w].outputAtPop
            /\ Cardinality({i \in 1..Len(queue') : queue'[i] = item}) = 1]_vars
\* between ticks, a step whose executor raised is back in the queue
C8_Witness ==
  /\ Idle
  /\ \E r \in RunIds, n \in ExecNames :
       /\ logs[r][n] # << >>
       /\ logs[r][n][Len(logs[r][n])] = LogEntry("error", "Step failed", ErrStep)
       /\ InQueue(r, n)
       /\ ~HasOutput(r, n)
       /\ meta[r].status = "running"

\* C9: a run's status only moves pending -> running -> completed
StatusStep(from, to) ==
  \/ from = to
  \/ from = "none" /\ to = "pending"
  \/ from = "pending" /\ to = "running"
  \/ from = "running" /\ to = "completed"
C9_StatusMonotone ==
  [][\A r \in RunIds : StatusStep(meta[r].status, meta'[r].status)]_vars
\* a run went through all three statuses
C9_Witness ==
  \E r \in RunIds :
    /\ meta[r].status = "completed"
    /\ \E n \in ExecNames : logs[r][n] # << >>

\* C10: with crashes inside ticks, a sample run on {text: "hello"} that is not
\* completed still has an item in the queue, so that later ticks finish it
C10_CrashLosesNothing ==
  Idle => \A r \in RunIds :
    ( /\ meta[r].exists
      /\ meta[r].pipelineId = "sample"
      /\ readPipelineInputs(r) = TextBag("hello")
      /\ meta[r].status # "completed" )
    => ItemsOf(r) # << >>

\* C11: createRun leaves the run `pending` with its input bag and appends to
\* the tail of the queue, in definition order, the steps without step-sourced
\* binding whose pipeline keys are all in the inputs; the items that were in
\* the queue keep their positions
Seedable(step, initialInputs) ==
  \A k \in 1..Len(step.inputs) :
    /\ step.inputs[k].binding.source = "pipeline"
    /\ initialInputs[step.inputs[k].binding.key] # Undef
SeedableNames(pipeline, initialInputs) ==
  LET seedable == {i \in 1..Len(pipeline.steps) :
                     Seedable(pipeline.steps[i], initialInputs)}
      nth(k) == CHOOSE i \in seedable : Cardinality({j \in seedable : j <= i}) = k
  IN [k \in 1..Cardinality(seedable) |->
        LET step == pipeline.steps[nth(k)]
        IN IF step.alias = None THEN step.stepId ELSE step.alias]
\* a sequence without the later occurrences of its elements
FirstOccurrences(seq) ==
  LET first == {i \in 1..Len(seq) : \A j \in 1..(i - 1) : seq[j] # seq[i]}
      nth(k) == CHOOSE i \in first : Cardinality({j \in first : j <= i}) = k
  IN [k \in 1..Cardinality(first) |-> seq[nth(k)]]
ItemsFor(pipelineId, runId, names) ==
  [k \in 1..Len(names) |-> QueueItem(pipelineId, runId, names[k])]
Created(r) == ~meta[r].exists /\ meta'[r].exists
\* as stated: one item per seedable step
C11_CreateRunSeedsEveryStep ==
  [][\A r \in RunIds : Created(r) =>
       /\ meta'[r].status = "pending"
       /\ inputsFiles'[r]["pipeline"].kind = "obj"
       /\ queue' = queue \o ItemsFor(meta'[r].pipelineId, r,
                      SeedableNames(load(meta'[r].pipelineId),
                                    inputsFiles'[r]["pipeline"].bag))]_vars
\* amended: one item per execution name of the seedable steps
C11_CreateRunSeedsEveryName ==
  [][\A r \in RunIds : Created(r) =>
       /\ meta'[r].status = "pending"
       /\ inputsFiles'[r]["pipeline"].kind = "obj"
       /\ listCompletedSteps(r)' = {}
       /\ queue' = queue \o ItemsFor(meta'[r].pipelineId, r,
                      FirstOccurrences(
                        SeedableNames(load(meta'[r].pipelineId),
                                      inputsFiles'[r]["pipeline"].bag)))]_vars
\* a second run was created behind the item of the first
C11_Witness ==
  /\ Len(queue) = 2
  /\ queue[1].runId = 1 /\ queue[2] = QueueItem("sample", 2, "echo")
  /\ meta[2].status = "pending"
  /\ readPipelineInputs(2) = TextBag("hello")

\* C12: a run whose inputs leave no step to seed has no item in the queue, no
\* output and status `pending` in every later state; and a tick that finds
\* the queue empty returns without changing anything
Starved(r) ==
  /\ meta[r].exists
  /\ Len(load(meta[r].pipelineId).steps) > 0
  /\ \A i \in 1..Len(load(meta[r].pipelineId).steps) :
       LET step == load(meta[r].pipelineId).steps[i]
       IN \E k \in 1..Len(step.inputs) :
            \/ step.inputs[k].binding.source = "step"
            \/ readPipelineInputs(r)[step.inputs[k].binding.key] = Undef
C12_StarvedRunStaysPending ==
  [][/\ \A r \in RunIds : (Starved(r) \/ (Created(r) /\ Starved(r)')) =>
          /\ meta'[r].status = "pending"
          /\ ItemsOf(r)' = << >>
          /\ listCompletedSteps(r)' = {}
          /\ \A w \in Workers : wk'[w].item.runId # r
     /\ (Idle /\ queue = << >> /\ \A r \in RunIds : ~Created(r)) =>
          UNCHANGED vars]_vars
\* a starved run is still pending after the ticks of a later run
C12_Witness ==
  /\ Idle /\ queue = << >>
  /\ Starved(1) /\ meta[1].status = "pending"
  /\ meta[2].status = "completed"

\* C13: a tick removes one item, the head, from the queue, and hands exactly
\* that item to the executor at most once before it returns
Stage(pc) ==
  CASE pc = "idle" -> 0 [] pc = "begin" -> 1 [] pc = "snapshot" -> 2
    [] pc = "execute" -> 3 [] pc = "persist" -> 4 [] pc = "expand" -> 5
    [] pc = "retry" -> 6
IsPrefix(s, t) == Len(s) <= Len(t) /\ SubSeq(t, 1, Len(s)) = s
C13_OneItemPerTick ==
  [][/\ ~IsPrefix(queue, queue') =>
          /\ queue # << >> /\ queue' = Tail(queue)
          /\ \E w \in Workers :
               /\ wk[w].pc = "idle" /\ wk'[w].pc = "begin"
               /\ wk'[w].item = Head(queue)
     /\ \A w \in Workers :
          /\ wk[w].pc = "idle" => wk'[w].pc \in {"idle", "begin"}
          /\ wk[w].pc # "idle" =>
               /\ IsPrefix(queue, queue')
               /\ wk'[w].pc = "idle" \/ Stage(wk'[w].pc) > Stage(wk[w].pc)
               /\ wk'[w].pc # "idle" => wk'[w].item = wk[w].item
               /\ LET appended ==
                        AppendedSince(wk[w].logAtPop,
                                      logs'[wk[w].item.runId][wk[w].item.stepId])
                  IN Cardinality({i \in 1..Len(appended) :
                                    appended[i].message = "Step started"}) <= 1]_vars
\* a tick has completed one step and left the other item of the queue alone
C13_Witness ==
  /\ Idle
  /\ queue = << QueueItem("fan", 1, "a") >>
  /\ HasOutput(1, "z") /\ ~HasOutput(1, "a")
  /\ logs[1]["a"] = << >>

\* C14: the queue is first in, first out: a pop hands out the head, the oldest
\* item, and seeding, expansion and retry all add behind the items that are
\* there, whose order they keep
C14_QueueFifo ==
  [][/\ \/ queue' = queue
        \/ /\ queue # << >> /\ queue' = Tail(queue)
           /\ \E w \in Workers : wk[w].pc = "idle" /\ wk'[w].item = Head(queue)
        \/ /\ Len(queue') > Len(queue) /\ IsPrefix(queue, queue')
           /\ \/ \E r \in RunIds : Created(r)
              \/ \E w \in Workers : wk[w].pc \in {"expand", "retry"}
     /\ \A w \in Workers :
          wk[w].pc = "retry" => queue' = queue \o << wk[w].item >>
     /\ \A r \in RunIds : Created(r) =>
          /\ IsPrefix(queue, queue')
          /\ \A i \in (Len(queue) + 1)..Len(queue') : queue'[i].runId = r
     /\ \A w \in Workers : wk[w].pc = "expand" =>
          /\ IsPrefix(queue, queue')
          /\ \A i \in (Len(queue) + 1)..Len(queue') :
               queue'[i].runId = wk[w].item.runId]_vars
\* the item of z, seeded first, is behind the item of a after its retry
C14_Witness ==
  /\ Idle
  /\ queue = << QueueItem("fan", 1, "a"), QueueItem("fan", 1, "z") >>
  /\ logs[1]["a"] = << >>
  /\ ~HasOutput(1, "z")

\* C15: a step all of whose executions have failed, however many, is in the
\* queue or with the tick that runs it, has no output record, and its run is
\* `running`, neither `failed` nor `completed`
Entries(r, n, message) ==
  {i \in 1..Len(logs[r][n]) : logs[r][n][i].message = message}
AlwaysFailed(r, n) ==
  /\ Entries(r, n, "Step failed") # {}
  /\ Entries(r, n, "Step completed") = {}
C15_FailingStepRetriedForever ==
  \A r \in RunIds, n \in ExecNames :
    AlwaysFailed(r, n) =>
      /\ ~HasOutput(r, n)
      /\ meta[r].status = "running"
      /\ \/ /\ Idle
            /\ Cardinality({i \in 1..Len(queue) :
                  queue[i] = QueueItem(meta[r].pipelineId, r, n)}) = 1
         \/ \E w \in Workers :
              /\ wk[w].pc # "idle"
              /\ \/ wk[w].item = QueueItem(meta[r].pipelineId, r, n)
                 \/ InQueue(r, n)
\* the step has failed as often as the bound lets it and is queued once more
C15_Witness ==
  /\ Idle
  /\ \E r \in RunIds, n \in ExecNames :
       /\ AlwaysFailed(r, n)
       /\ Cardinality(Entries(r, n, "Step failed")) = MaxFailures + 1
       /\ InQueue(r, n)

\* C16: a tick that ends before the executor is called (manifest or step not
\* found, dependency without output bag) does not put its item back, appends
\* no 'Step failed' entry and writes no output record
C16_FatalErrorDropsItem ==
  [][\A w \in Workers :
       (wk[w].pc \in {"begin", "snapshot"} /\ wk'[w].pc \notin {"snapshot", "execute"}) =>
         /\ wk'[w].pc = "idle"
         /\ queue' = queue
         /\ \A i \in 1..Len(queue') : queue'[i] # wk[w].item
         /\ outputsFiles' = outputsFiles
         /\ logs'[wk[w].item.runId][wk[w].item.stepId] = wk[w].logAtPop]_vars
\* the only item of a run whose step has no manifest is gone after its tick
C16_Witness ==
  /\ Idle
  /\ \E r \in RunIds :
       /\ meta[r].exists /\ meta[r].pipelineId = "broken"
       /\ ItemsOf(r) = << >>
       /\ logs[r]["ghost"] = << >> /\ ~HasOutput(r, "ghost")

\* C17: when a step is handed to the executor, its input snapshot holds,
\* under each local input name, the value that the dependency's output record
\* has under the referenced output key, or that the pipeline-input bag has
\* under the binding's key
BoundValue(runId, input) ==
  IF input.binding.source = "pipeline"
  THEN inputsFiles[runId]["pipeline"].bag[input.binding.key]
  ELSE outputsFiles[runId][input.binding.stepId].bag[
         IF input.binding.output = None THEN input.name ELSE input.binding.output]
C17_InputsAreBoundValues ==
  \A w \in Workers :
    wk[w].pc = "execute" =>
      LET item == wk[w].item
          inputs == StepOf(item).inputs
          snapshot == inputsFiles[item.runId][item.stepId]
      IN /\ snapshot.kind = "obj"
         /\ snapshot.bag = wk[w].inputs
         /\ \A i \in 1..Len(inputs) :
              snapshot.bag[inputs[i].name] = BoundValue(item.runId, inputs[i])
         /\ \A key \in Keys :
              (\A i \in 1..Len(inputs) : inputs[i].name # key) =>
                snapshot.bag[key] = Undef
\* the joining step of the fan pipeline runs on the outputs of both others,
\* one of them read under an output key that is not the input's name
C17_Witness ==
  \E w \in Workers :
    /\ wk[w].pc = "execute"
    /\ wk[w].item = QueueItem("fan", 1, "b")
    /\ wk[w].inputs = [k |-> "hello", text |-> "hello"]
    /\ outputsFiles[1]["z"] = ObjFile(TextBag("hello"))

\* C18: the record of a run that exists is not replaced: its pipeline-input
\* bag stays what createRun wrote and its status is not reset
C18_InitRunTwiceRefused ==
  [][\A r \in RunIds : meta[r].exists =>
       /\ StatusStep(meta[r].status, meta'[r].status)
       /\ inputsFiles'[r]["pipeline"] = inputsFiles[r]["pipeline"]]_vars

\* C19: the steps of a cycle of step-sourced bindings, and the steps bound to
\* them, are never enqueued nor executed; the cycle makes no tick fail; the
\* run is never `completed`
StepNames(pipeline) ==
  {IF pipeline.steps[i].alias = None THEN pipeline.steps[i].stepId
   ELSE pipeline.steps[i].alias : i \in 1..Len(pipeline.steps)}
\* the least set of names closed under: every step-sourced binding of the
\* step names a member
RECURSIVE Grounded(_, _)
Grounded(pipeline, names) ==
  LET more == {n \in StepNames(pipeline) :
                 \E i \in 1..Len(pipeline.steps) :
                   /\ n = (IF pipeline.steps[i].alias = None
                           THEN pipeline.steps[i].stepId ELSE pipeline.steps[i].alias)
                   /\ \A k \in 1..Len(pipeline.steps[i].inputs) :
                        pipeline.steps[i].inputs[k].binding.source = "step" =>
                          pipeline.steps[i].inputs[k].binding.stepId \in names}
  IN IF more \subseteq names THEN names ELSE Grounded(pipeline, names \cup more)
Deadlocked(pipeline) == StepNames(pipeline) \ Grounded(pipeline, {})
C19_CycleNeverRuns ==
  \A r \in RunIds :
    (meta[r].exists /\ Deadlocked(load(meta[r].pipelineId)) # {}) =>
      /\ meta[r].status \in {"pending", "running"}
      /\ \A n \in Deadlocked(load(meta[r].pipelineId)) :
           /\ ~InQueue(r, n)
           /\ \A w \in Workers : wk[w].item # QueueItem(meta[r].pipelineId, r, n)
           /\ ~HasOutput(r, n)
           /\ logs[r][n] = << >>
      /\ \A n \in ExecNames : Entries(r, n, "Step failed") = {}
      /\ \A w \in Workers :
           (wk[w].item.runId = r /\ wk[w].pc = "snapshot") =>
             ~materializeInputs(StepOf(wk[w].item).inputs, wk[w].pipelineInputs,
                                wk[w].completedOutputs).threw
\* the one step outside the cycle is done, the queue is empty, the run is
\* still running
C19_Witness ==
  /\ Idle /\ queue = << >>
  /\ \E r \in RunIds :
       /\ meta[r].exists /\ meta[r].pipelineId = "cycle"
       /\ Deadlocked(CyclePipeline) = {"a", "b", "x"}
       /\ HasOutput(r, "z")
       /\ meta[r].status = "running"

\* C20: the pipeline-input record of a run is what createRun wrote, whatever
\* the execution names of the steps: no tick changes it
C20_PipelineInputsFrozen ==
  [][\A r \in RunIds : meta[r].exists =>
       inputsFiles'[r]["pipeline"] = inputsFiles[r]["pipeline"]]_vars

\* C21: the input snapshot of a step is written once: a tick writes
\* inputs/<step>.json only when the run has no such record yet, retries of a
\* failed step included
C21_SnapshotWrittenOnce ==
  [][\A w \in Workers :
       (wk[w].pc = "snapshot" /\ wk'[w].pc = "execute") =>
         inputsFiles[wk[w].item.runId][wk[w].item.stepId] = AbsentFile]_vars

\* C22: every step log stream is append-only and isolated, and every attempt
\* that reaches the executor leaves 'Step started', then the executor's
\* entries, then exactly one of 'Step completed' and 'Step failed'
Control == {"Step started", "Step completed", "Step failed"}
PrevControl(stream, i) ==
  LET before == {j \in 1..(i - 1) : stream[j].message \in Control}
  IN IF before = {} THEN None
     ELSE stream[CHOOSE j \in before : \A k \in before : k <= j].message
AttemptsWellFormed(stream) ==
  \A i \in 1..Len(stream) :
    /\ stream[i].message \in {"Step completed", "Step failed"} =>
         PrevControl(stream, i) = "Step started"
    /\ stream[i].message = "Step started" =>
         PrevControl(stream, i) \in {None, "Step completed", "Step failed"}
C22_LogStreams ==
  [][\A r \in RunIds, n \in ExecNames :
       /\ IsPrefix(logs[r][n], logs'[r][n])
       /\ logs'[r][n] # logs[r][n] =>
            \E w \in Workers : wk[w].item.runId = r /\ wk[w].item.stepId = n
       /\ AttemptsWellFormed(logs'[r][n])]_vars

\* C23: two workers on an unlocked queue.json: what popQueueItem and
\* appendQueueItem write back is the copy the worker read, whatever the file
\* holds by then, so that both workers can hold the same item and an item
\* one of them appended can be gone from the file
C23_StaleWriteBack ==
  [][\A w \in Workers :
       /\ (wk[w].pc = "popwrite" /\ wk'[w].pc # "popwrite") =>
            /\ queue' = IF wk[w].queueRead = << >> THEN << >>
                        ELSE Tail(wk[w].queueRead)
            /\ wk'[w].item = IF wk[w].queueRead = << >> THEN NoItem
                             ELSE Head(wk[w].queueRead)
       /\ (wk[w].pc = "appendwrite" /\ wk'[w].pc # "appendwrite") =>
            queue' = Append(wk[w].queueRead, Head(wk[w].pending))]_vars
Held(runId, name) ==
  \E w \in Workers : wk[w].item.runId = runId /\ wk[w].item.stepId = name
InSomeCopy(runId, name) ==
  \E w \in Workers : \E i \in 1..Len(wk[w].queueRead) :
    wk[w].queueRead[i].runId = runId /\ wk[w].queueRead[i].stepId = name
\* the executor is about to run twice for one popped item
DoublePop ==
  /\ wk["w1"].item # NoItem /\ wk["w1"].item = wk["w2"].item
  /\ wk["w1"].pc = "execute" /\ wk["w2"].pc = "execute"
\* a step that was appended after its dependency completed is in no copy of
\* the queue any more, and was never executed
ErasedAppend ==
  \E r \in RunIds :
    /\ meta[r].pipelineId = "sample"
    /\ HasOutput(r, "echo") /\ ~HasOutput(r, "uppercase")
    /\ logs[r]["uppercase"] = << >>
    /\ ~InQueue(r, "uppercase") /\ ~Held(r, "uppercase")
    /\ ~InSomeCopy(r, "uppercase")
C23_Witness == DoublePop /\ ErasedAppend

\* C24: an executor result whose `outputs` is missing or is not an object is
\* an execution error: no output record is written, and the attempt goes
\* to the catch branch ('Step failed', the item re-enqueued)
C24_InvalidResultIsAnError ==
  [][\A w \in Workers :
       (wk[w].pc = "persist" /\ wk[w].result.kind # "obj"
          /\ wk'[w].pc # "persist") =>
         /\ wk'[w].pc = "retry"
         /\ outputsFiles' = outputsFiles]_vars

\* C25: a step-sourced binding without `output` is looked up under the
\* binding's own `key`, by the resolver and by materializeInputs alike,
\* also when `key` is not the local input name
SatisfiedByKey(input, snapshot) ==
  /\ input.binding.source = "pipeline" => Has(snapshot.pipelineInputs, input.binding.key)
  /\ input.binding.source = "step" =>
       LET outputKey == IF input.binding.output = None THEN input.binding.key
                        ELSE input.binding.output
           stepOutputs == Get(snapshot.availableOutputs, input.binding.stepId)
       IN stepOutputs.kind = "obj" /\ Has(stepOutputs.bag, outputKey)
ValueByKey(input, snapshot) ==
  IF input.binding.source = "pipeline"
  THEN Lookup(snapshot.pipelineInputs, input.binding.key)
  ELSE Lookup(Get(snapshot.availableOutputs, input.binding.stepId).bag,
              IF input.binding.output = None THEN input.binding.key
              ELSE input.binding.output)
EligibleByKey(pipeline, snapshot) ==
  {getStepExecutionName(pipeline.steps[i]) : i \in {j \in 1..Len(pipeline.steps) :
     /\ getStepExecutionName(pipeline.steps[j]) \notin snapshot.completedSteps
     /\ getStepExecutionName(pipeline.steps[j]) \notin snapshot.enqueuedSteps
     /\ \A k \in 1..Len(pipeline.steps[j].inputs) :
          SatisfiedByKey(pipeline.steps[j].inputs[k], snapshot)}}
C25_DefaultOutputIsBindingKey ==
  probe.called =>
    /\ ~probe.result.threw
    /\ {probe.result.names[j] : j \in 1..Len(probe.result.names)} =
         EligibleByKey(probe.pipeline, probe.snapshot)
    /\ \A i \in 1..Len(probe.pipeline.steps) :
         LET step == probe.pipeline.steps[i]
             m == materializeInputs(step.inputs, probe.snapshot.pipelineInputs,
                                    probe.snapshot.availableOutputs)
         IN (\A k \in 1..Len(step.inputs) :
               SatisfiedByKey(step.inputs[k], probe.snapshot)) =>
              /\ ~m.threw
              /\ \A k \in 1..Len(step.inputs) :
                   m.inputs[step.inputs[k].name] =
                     ValueByKey(step.inputs[k], probe.snapshot)

\* C26: a run of an acyclic pipeline whose pipeline keys are all given and
\* whose steps succeed in the end is brought to `completed` by a worker that
\* keeps ticking, every execution name having run to success exactly once (a
\* step that shares its execution name with an earlier step is not run on
\* its own)
WellFormedRun(r) ==
  /\ meta[r].exists
  /\ meta[r].pipelineId \in {"sample", "dup", "fan"}
  /\ Has(readPipelineInputs(r), "text")
SucceededOnce(r, n) ==
  /\ Cardinality(Entries(r, n, "Step completed")) = 1
  /\ outputsFiles[r][n].kind = "obj"
NamesOf(r) ==
  {getStepExecutionName(load(meta[r].pipelineId).steps[i]) :
     i \in 1..Len(load(meta[r].pipelineId).steps)}
C26_EveryNameRunsToCompletion ==
  \A r \in RunIds :
    /\ WellFormedRun(r) ~>
         (meta[r].status = "completed" /\ \A n \in NamesOf(r) : SucceededOnce(r, n))
    /\ [](WellFormedRun(r) =>
            \A n \in ExecNames : Cardinality(Entries(r, n, "Step completed")) <= 1)
\* the same with every step of the pipeline run on its own
C26_EveryStepRunsToCompletion ==
  \A r \in RunIds :
    WellFormedRun(r) ~>
      /\ meta[r].status = "completed"
      /\ \A i \in 1..Len(load(meta[r].pipelineId).steps) :
           LET n == getStepExecutionName(load(meta[r].pipelineId).steps[i])
           IN /\ findStepByExecutionName(load(meta[r].pipelineId), n) = i
              /\ SucceededOnce(r, n)
\* a run of the fan pipeline completed after its worker retried a step
C26_Witness ==
  \E r \in RunIds :
    /\ meta[r].pipelineId = "fan" /\ meta[r].status = "completed"
    /\ \A n \in NamesOf(r) : SucceededOnce(r, n)
    /\ \E n \in NamesOf(r) : Entries(r, n, "Step failed") # {}

\* C27: between the operations of a single worker, every step of a run that
\* has no output record and whose bindings are all satisfied by the run's
\* pipeline inputs and persisted outputs is in the global queue (a step
\* without a manifest is dropped by the fatal tick that finds it so)
Persisted(r) ==
  [completedSteps |-> listCompletedSteps(r), enqueuedSteps |-> {},
   availableOutputs |-> loadAllOutputs(r),
   pipelineInputs |-> readPipelineInputs(r)]
C27_NoEligibleStepLeftBehind ==
  Idle =>
    \A r \in RunIds : meta[r].exists =>
      \A i \in 1..Len(load(meta[r].pipelineId).steps) :
        LET step == load(meta[r].pipelineId).steps[i]
            n == getStepExecutionName(step)
        IN (/\ ~HasOutput(r, n)
            /\ step.stepId \in Manifests
            /\ \A k \in 1..Len(step.inputs) :
                 BindingSatisfiable(step.inputs[k], Persisted(r))) =>
             InQueue(r, n)

\* after a tick that ended in the catch branch and ticks that succeeded, the
\* last step of a fan run has become eligible and waits in the queue
C27_Witness ==
  /\ Idle
  /\ \E r \in RunIds :
       /\ meta[r].pipelineId = "fan"
       /\ \E n \in ExecNames : Entries(r, n, "Step failed") # {}
       /\ ~HasOutput(r, "b") /\ InQueue(r, "b")
       /\ \A k \in 1..Len(FanPipeline.steps[3].inputs) :
            BindingSatisfiable(FanPipeline.steps[3].inputs[k], Persisted(r))

\* C28: a tick on an item of run R changes no record of another run
\* (metadata, pipeline inputs, step inputs, outputs, logs), leaves the other
\* runs' items in the queue as they are and in their order, and sets R
\* `completed` by R's own outputs and items alone
TickOf(w, R) ==
  \/ wk[w].pc # "idle" /\ wk[w].item.runId = R
  \/ wk[w].pc = "idle" /\ wk'[w].pc # "idle" /\ wk'[w].item.runId = R
C28_RunsIsolated ==
  [][\A w \in Workers, R \in RunIds : TickOf(w, R) =>
       /\ \A r \in RunIds \ {R} :
            /\ meta'[r] = meta[r]
            /\ inputsFiles'[r] = inputsFiles[r]
            /\ outputsFiles'[r] = outputsFiles[r]
            /\ logs'[r] = logs[r]
            /\ SelectSeq(queue', LAMBDA item : item.runId = r) =
                 SelectSeq(queue, LAMBDA item : item.runId = r)
       /\ (wk[w].pc = "expand" /\ wk'[w].pc = "idle") =>
            (meta'[R].status = "completed" <=>
               /\ \A i \in 1..Len(load(meta[R].pipelineId).steps) :
                    HasOutput(R, getStepExecutionName(load(meta[R].pipelineId).steps[i]))
               /\ SelectSeq(queue', LAMBDA item : item.runId = R) = << >>)]_vars
\* a run was completed while an item of another run waited in the queue
C28_Witness ==
  /\ Idle
  /\ \E r1, r2 \in RunIds :
       /\ r1 # r2
       /\ meta[r1].status = "completed"
       /\ meta[r2].status = "pending"
       /\ ItemsOf(r2) # << >>

\* C29: with atomic queue calls, a step that one worker has popped and is
\* executing (not in the queue, no output record) is not enqueued by the
\* resolver pass another worker runs after it finished a different step of
\* the same run
Executing(w) == wk[w].pc \in {"begin", "snapshot", "execute", "persist"}
C29_ExecutingStepNotEnqueued ==
  [][\A w1, w2 \in Workers :
       (/\ w1 # w2
        /\ Executing(w1) /\ wk[w2].pc = "expand"
        /\ wk[w1].item.runId = wk[w2].item.runId
        /\ wk[w1].item.stepId # wk[w2].item.stepId
        /\ ~InQueue(wk[w1].item.runId, wk[w1].item.stepId)
        /\ ~HasOutput(wk[w1].item.runId, wk[w1].item.stepId)
        /\ wk'[w2].pc # "expand") =>
         ~\E i \in 1..Len(queue') : queue'[i] = wk[w1].item]_vars

====
